---- MODULE Spec2Model ----
(***************************************************************************)
(* A model of src/services/notes.js: the note / branch lifecycle engine.   *)
(*                                                                         *)
(* The store (tables notes, branches, note_revisions, note_images and the  *)
(* sync table's reordering entries) is the shared state.  Every async      *)
(* function is cut at its awaits: one action per storage call, so that     *)
(* other calls can run in between exactly where the event loop lets them.  *)
(* Identifiers are the row's index in its table (the code draws fresh      *)
(* random identifiers; the index is the canonical fresh one).              *)
(***************************************************************************)
EXTENDS Integers, Sequences, FiniteSets, TLC

VARIABLES
    notes,          \* table notes: Seq of rows, noteId = index
    branches,       \* table branches: Seq of rows, branchId = index
    noteRevisions,  \* table note_revisions
    noteImages,     \* table note_images
    reorderSyncs,   \* sync table: reordering entries recorded per parent
    clock,          \* wall clock in ms, read by new Date() / utils.nowDate()
    pc,             \* per call slot: the await the call is suspended at
    cr,             \* createNewNote's arguments and locals, per call slot
    del,            \* deleteNote's argument and pending recursion, per slot
    up,             \* updateNote's arguments and locals, per call slot
    labels,         \* label store: each note's disable_versioning value
    held,           \* the branch object the caller still holds after deleteNote
    writes,         \* per call slot: storage writes of the current/last call
    shifts,         \* history: UPDATEs per parent that moved >= 1 sibling
    failures,       \* history: storage errors thrown so far
    calls,          \* history: calls made so far
    pr              \* protectNoteRecursively's arguments and pending recursion

vars == <<notes, branches, noteRevisions, noteImages, reorderSyncs, clock,
          pc, cr, del, up, labels, held, writes, shifts, failures,
          calls, pr>>

-----------------------------------------------------------------------------
(* Bounds of the model *)

MaxInitNotes == 2
MaxInitBranches == 3
MaxInitPos == 1
MaxSmallNotes == 1
MaxSmallBranches == 2
MaxCalls == 2
MaxUpdates == 2
MaxTicks == 3
NumImages == 2
MaxContentLen == 2
MaxFailures == 1

MaxNotes == 3
NumProcs == 2
Procs == 1..NumProcs
SeqProc == CHOOSE p \in Procs : \A q \in Procs : p <= q

\* the parentNoteId 'root': the root is no row of the notes table
ROOT == 0

-----------------------------------------------------------------------------
(* JavaScript values of the isDeleted property: the number 0 / 1 a row is  *)
(* loaded with, or the boolean true that deleteNote assigns.               *)

JsNum(n) == [t |-> "number", v |-> n]
JsTrue == [t |-> "boolean", v |-> 1]

\* a === b
StrictEq(a, b) == a.t = b.t /\ a.v = b.v

\* what the column holds after the value is bound to the statement
ToSql(js) == js.v

-----------------------------------------------------------------------------
(* Rows and in-memory entities *)

NullBranch == [branchId |-> 0, noteId |-> 0, parentNoteId |-> 0,
               notePosition |-> 0, isExpanded |-> 0, isDeleted |-> JsNum(0)]

IsNull(branch) == branch.branchId = 0

\* the Branch entity a row is loaded into
LoadBranch(bs, id) ==
    [branchId |-> id, noteId |-> bs[id].noteId,
     parentNoteId |-> bs[id].parentNoteId,
     notePosition |-> bs[id].notePosition,
     isExpanded |-> bs[id].isExpanded,
     isDeleted |-> JsNum(bs[id].isDeleted)]

\* branch.save(): the whole row is replaced by the entity's properties
BranchRow(branch) ==
    [noteId |-> branch.noteId, parentNoteId |-> branch.parentNoteId,
     notePosition |-> branch.notePosition, isExpanded |-> branch.isExpanded,
     isDeleted |-> ToSql(branch.isDeleted)]

SaveBranchEntity(bs, branch) ==
    IF branch.branchId \in DOMAIN bs
    THEN [bs EXCEPT ![branch.branchId] = BranchRow(branch)]
    ELSE Append(bs, BranchRow(branch))

\* note.getBranches(): the note's non-deleted branches
GetBranches(bs, noteId) ==
    {i \in DOMAIN bs : bs[i].noteId = noteId /\ bs[i].isDeleted = 0}

\* ids of the non-deleted branches whose parent is the note
ChildBranchIds(bs, noteId) ==
    {i \in DOMAIN bs : bs[i].parentNoteId = noteId /\ bs[i].isDeleted = 0}

RECURSIVE SetToSeq(_)
SetToSeq(S) ==
    IF S = {} THEN <<>>
    ELSE LET m == CHOOSE x \in S : \A y \in S : x <= y
         IN <<m>> \o SetToSeq(S \ {m})

\* mutation: no child branch is returned
GetChildBranchesNone(bs, noteId) == <<>>

\* note.getChildBranches(): the entities, loaded once, in id order
GetChildBranches(bs, noteId) ==
    LET ids == SetToSeq(ChildBranchIds(bs, noteId))
    IN [k \in DOMAIN ids |-> LoadBranch(bs, ids[k])]

-----------------------------------------------------------------------------
(* Time.  Timestamps are stored as fixed-width strings and compared as      *)
(* strings; utils.dateStr / utils.parseDateTime convert.                    *)

\* the option note_revision_snapshot_time_interval, in seconds
NoteRevisionSnapshotTimeInterval == 1

IntervalMs == NoteRevisionSnapshotTimeInterval * 1000

\* the clock advances in steps of half the snapshot interval
TickMs == IntervalMs \div 2

\* the earliest reading of the clock: one interval after the epoch
StartMs == IntervalMs

MaxClockMs == StartMs + MaxTicks * TickMs

DateWidth == 5

RECURSIVE Pow10(_)
Pow10(k) == IF k = 0 THEN 1 ELSE 10 * Pow10(k - 1)

\* utils.dateStr(date): the digits of the time, most significant first
DateStr(ms) == [i \in 1..DateWidth |-> (ms \div Pow10(DateWidth - i)) % 10]

\* utils.parseDateTime(str).getTime()
RECURSIVE ParseDateTime(_)
ParseDateTime(str) ==
    IF str = <<>> THEN 0
    ELSE 10 * ParseDateTime(SubSeq(str, 1, Len(str) - 1)) + str[Len(str)]

\* a >= b on strings, as SQL compares the dateModifiedTo column
RECURSIVE StrGeq(_, _)
StrGeq(a, b) ==
    IF b = <<>> THEN TRUE
    ELSE IF a = <<>> THEN FALSE
    ELSE IF Head(a) # Head(b) THEN Head(a) > Head(b)
    ELSE StrGeq(Tail(a), Tail(b))

-----------------------------------------------------------------------------
(* The notes table *)

\* an unset option or label (undefined: falsy)
UNSET == ""

NoteRow(title, content, type, mime, isProtected, now) ==
    [title |-> title, content |-> content, type |-> type, mime |-> mime,
     isProtected |-> isProtected, isDeleted |-> 0,
     dateCreated |-> now, dateModified |-> now]

\* SELECT MAX(notePosition) FROM branches WHERE parentNoteId = ? AND isDeleted = 0
MaxOf(S) == CHOOSE m \in S : \A x \in S : x <= m

SiblingPositions(bs, parentNoteId) ==
    {bs[i].notePosition : i \in ChildBranchIds(bs, parentNoteId)}

MaxNotePosition(bs, parentNoteId) ==
    LET ps == SiblingPositions(bs, parentNoteId)
    IN IF ps = {} THEN [isNull |-> TRUE, value |-> 0]
       ELSE [isNull |-> FALSE, value |-> MaxOf(ps)]

\* mutation: the null of an empty MAX is not told from a position
IntoPositionNoNull(maxNotePos) == maxNotePos.value + 1

\* target 'into': maxNotePos === null ? 0 : maxNotePos + 1
IntoPosition(maxNotePos) ==
    IF maxNotePos.isNull THEN 0 ELSE maxNotePos.value + 1

\* mutation: the reference branch's own position is returned
AfterPositionSame(afterPos) == afterPos

\* target 'after': afterNote.notePosition + 1
AfterPosition(afterPos) == afterPos + 1

\* mutation: the UPDATE does not filter on isDeleted
ShiftedIdsWithDeleted(bs, parentNoteId, afterPos) ==
    {i \in DOMAIN bs : /\ bs[i].parentNoteId = parentNoteId
                       /\ bs[i].notePosition > afterPos}

\* the rows the UPDATE of the 'after' target selects
ShiftedIds(bs, parentNoteId, afterPos) ==
    {i \in DOMAIN bs : /\ bs[i].parentNoteId = parentNoteId
                       /\ bs[i].notePosition > afterPos
                       /\ bs[i].isDeleted = 0}

\* UPDATE branches SET notePosition = notePosition + 1 WHERE ...
ShiftBranches(bs, parentNoteId, afterPos) ==
    [i \in DOMAIN bs |->
        IF i \in ShiftedIds(bs, parentNoteId, afterPos)
        THEN [bs[i] EXCEPT !.notePosition = @ + 1]
        ELSE bs[i]]

-----------------------------------------------------------------------------
(* Call slots *)

NoCreate == [parentNoteId |-> ROOT, target |-> UNSET, target_branchId |-> 0,
             type |-> UNSET, mime |-> UNSET, newNotePos |-> 0, afterPos |-> 0,
             noteId |-> 0]

NoDelete == [arg |-> NullBranch, top |-> FALSE, stack |-> <<>>]

NoNote == [noteId |-> 0, title |-> UNSET, content |-> <<>>, type |-> UNSET,
           isProtected |-> FALSE, dateCreated |-> <<>>, dateModified |-> <<>>]

NoUpdate == [noteId |-> 0, title |-> UNSET, content |-> <<>>, given |-> <<>>,
             isProtected |-> FALSE, note |-> NoNote, now |-> 0,
             snapshot |-> FALSE]

NoProtect == [noteId |-> 0, protect |-> FALSE, stack |-> <<>>, visits |-> 0]

Idle(p) == pc[p] = "idle"

\* the awaits a storage call can be rejected at
Awaiting == {"getNewNotePosition", "shift", "addNoteReorderingSync",
             "getParent", "saveNote", "saveBranch", "deleteNote"}

-----------------------------------------------------------------------------
(* createNewNote(parentNoteId, noteOpts)                                    *)

Targets == {"into", "after", "before"}

\* noteOpts.type / noteOpts.mime as the callers pass them
TypeOpts == {[type |-> UNSET, mime |-> UNSET],
             [type |-> "file", mime |-> "application/octet-stream"]}

\* the call is made: nothing has run yet
CreateNewNote(p, parentNoteId, target, target_branchId, opts) ==
    /\ Idle(p)
    /\ calls < MaxCalls
    /\ Len(notes) < MaxNotes
    /\ calls' = calls + 1
    /\ held' = NullBranch
    /\ pc' = [pc EXCEPT ![p] = "getNewNotePosition"]
    /\ cr' = [cr EXCEPT ![p] = [NoCreate EXCEPT
                  !.parentNoteId = parentNoteId, !.target = target,
                  !.target_branchId = target_branchId,
                  !.type = opts.type, !.mime = opts.mime]]
    /\ writes' = [writes EXCEPT ![p] = 0]
    /\ UNCHANGED <<pr, notes, branches, noteRevisions, noteImages, reorderSyncs,
                   clock, del, up, labels, shifts, failures>>

\* target 'into': the MAX query and the position it gives
GetNewNotePositionInto(p) ==
    /\ pc[p] = "getNewNotePosition"
    /\ cr[p].target = "into"
    /\ cr' = [cr EXCEPT ![p].newNotePos =
                  IntoPosition(MaxNotePosition(branches, cr[p].parentNoteId))]
    /\ pc' = [pc EXCEPT ![p] = "getParent"]
    /\ UNCHANGED <<pr, notes, branches, noteRevisions, noteImages, reorderSyncs,
                   clock, del, up, labels, held, writes, shifts, failures, calls>>

\* target 'after': the reference branch's row is read; no row: afterNote is
\* null and reading its notePosition throws
GetNewNotePositionAfter(p) ==
    /\ pc[p] = "getNewNotePosition"
    /\ cr[p].target = "after"
    /\ IF cr[p].target_branchId \in DOMAIN branches
       THEN /\ cr' = [cr EXCEPT
                     ![p].afterPos = branches[cr[p].target_branchId].notePosition,
                     ![p].newNotePos = AfterPosition(
                         branches[cr[p].target_branchId].notePosition)]
            /\ pc' = [pc EXCEPT ![p] = "shift"]
       ELSE /\ cr' = [cr EXCEPT ![p] = NoCreate]
            /\ pc' = [pc EXCEPT ![p] = "idle"]
    /\ UNCHANGED <<pr, notes, branches, noteRevisions, noteImages, reorderSyncs,
                   clock, del, up, labels, held, writes, shifts, failures, calls>>

\* any other target: throw new Error('Unknown target: ...')
GetNewNotePositionUnknown(p) ==
    /\ pc[p] = "getNewNotePosition"
    /\ cr[p].target \notin {"into", "after"}
    /\ cr' = [cr EXCEPT ![p] = NoCreate]
    /\ pc' = [pc EXCEPT ![p] = "idle"]
    /\ UNCHANGED <<pr, notes, branches, noteRevisions, noteImages, reorderSyncs,
                   clock, del, up, labels, held, writes, shifts, failures, calls>>

\* the UPDATE that moves the later siblings up by one
ShiftSiblings(p) ==
    /\ pc[p] = "shift"
    /\ branches' = ShiftBranches(branches, cr[p].parentNoteId, cr[p].afterPos)
    /\ shifts' = [shifts EXCEPT ![cr[p].parentNoteId] =
                      IF ShiftedIds(branches, cr[p].parentNoteId,
                                    cr[p].afterPos) = {} THEN @ ELSE @ + 1]
    /\ writes' = [writes EXCEPT ![p] = @ + 1]
    /\ pc' = [pc EXCEPT ![p] = "addNoteReorderingSync"]
    /\ UNCHANGED <<pr, notes, noteRevisions, noteImages, reorderSyncs, clock,
                   cr, del, up, labels, held, failures, calls>>

\* sync_table.addNoteReorderingSync(parentNoteId)
AddNoteReorderingSync(p) ==
    /\ pc[p] = "addNoteReorderingSync"
    /\ reorderSyncs' = [reorderSyncs EXCEPT ![cr[p].parentNoteId] = @ + 1]
    /\ writes' = [writes EXCEPT ![p] = @ + 1]
    /\ pc' = [pc EXCEPT ![p] = "getParent"]
    /\ UNCHANGED <<pr, notes, branches, noteRevisions, noteImages, clock,
                   cr, del, up, labels, held, shifts, failures, calls>>

\* noteOpts.type / .mime default to the parent's unless the parent is root
InheritedType(ns, parentNoteId, type) ==
    IF parentNoteId # ROOT /\ type = UNSET THEN ns[parentNoteId].type ELSE type

InheritedMime(ns, parentNoteId, mime) ==
    IF parentNoteId # ROOT /\ mime = UNSET THEN ns[parentNoteId].mime ELSE mime

InheritFromParent(p) ==
    /\ pc[p] = "getParent"
    /\ cr' = [cr EXCEPT
                  ![p].type = InheritedType(notes, cr[p].parentNoteId, @),
                  ![p].mime = InheritedMime(notes, cr[p].parentNoteId, @)]
    /\ pc' = [pc EXCEPT ![p] = "saveNote"]
    /\ UNCHANGED <<pr, notes, branches, noteRevisions, noteImages, reorderSyncs,
                   clock, del, up, labels, held, writes, shifts, failures, calls>>

\* new Note({...}) and note.save()
NewNote(type, mime, now) ==
    NoteRow("new", <<>>, IF type # UNSET THEN type ELSE "text",
            IF mime # UNSET THEN mime ELSE "text/html", FALSE, now)

SaveNote(p) ==
    /\ pc[p] = "saveNote"
    /\ notes' = Append(notes, NewNote(cr[p].type, cr[p].mime, DateStr(clock)))
    /\ labels' = Append(labels, UNSET)
    /\ cr' = [cr EXCEPT ![p].noteId = Len(notes) + 1]
    /\ writes' = [writes EXCEPT ![p] = @ + 1]
    /\ pc' = [pc EXCEPT ![p] = "saveBranch"]
    /\ UNCHANGED <<pr, branches, noteRevisions, noteImages, reorderSyncs, clock,
                   del, up, held, shifts, failures, calls>>

\* mutation: the branch is placed first whatever position was computed
NewBranchAtZero(branchId, noteId, parentNoteId, newNotePos) ==
    [branchId |-> branchId, noteId |-> noteId, parentNoteId |-> parentNoteId,
     notePosition |-> 0, isExpanded |-> 0, isDeleted |-> JsNum(0)]

\* new Branch({...}) and branch.save()
NewBranch(branchId, noteId, parentNoteId, newNotePos) ==
    [branchId |-> branchId, noteId |-> noteId, parentNoteId |-> parentNoteId,
     notePosition |-> newNotePos, isExpanded |-> 0, isDeleted |-> JsNum(0)]

SaveBranch(p) ==
    /\ pc[p] = "saveBranch"
    /\ branches' = SaveBranchEntity(branches,
                        NewBranch(Len(branches) + 1, cr[p].noteId,
                                  cr[p].parentNoteId, cr[p].newNotePos))
    /\ writes' = [writes EXCEPT ![p] = @ + 1]
    /\ cr' = [cr EXCEPT ![p] = NoCreate]
    /\ pc' = [pc EXCEPT ![p] = "idle"]
    /\ UNCHANGED <<pr, notes, noteRevisions, noteImages, reorderSyncs, clock,
                   del, up, labels, held, shifts, failures, calls>>

\* a storage call rejects: the error propagates and the call is abandoned
\* with whatever it has written so far
StorageError(p) ==
    /\ pc[p] \in Awaiting
    /\ failures < MaxFailures
    /\ failures' = failures + 1
    /\ pc' = [pc EXCEPT ![p] = "idle"]
    /\ cr' = [cr EXCEPT ![p] = NoCreate]
    /\ del' = [del EXCEPT ![p] = NoDelete]
    /\ UNCHANGED <<pr, notes, branches, noteRevisions, noteImages, reorderSyncs,
                   clock, up, labels, held, writes, shifts, calls>>

-----------------------------------------------------------------------------
(* deleteNote(branch)                                                       *)

\* if (!branch || branch.isDeleted === 1) return;
DeleteReturnsEarly(branch) ==
    IsNull(branch) \/ StrictEq(branch.isDeleted, JsNum(1))

\* branch.isDeleted = true
MarkDeleted(branch) == [branch EXCEPT !.isDeleted = JsTrue]

\* mutation: the note is marked deleted whatever placements remain
NoBranchLeftAlways(bs, noteId) == TRUE

\* notDeletedBranches.length === 0, read after the branch is saved
NoBranchLeft(bs, noteId) == GetBranches(bs, noteId) = {}

\* note.isDeleted = true; note.save()
MarkNoteDeleted(ns, noteId) == [ns EXCEPT ![noteId].isDeleted = ToSql(JsTrue)]

\* the pending calls: one frame per for-loop that is still running
PendingFrames(frames) == SelectSeq(frames, LAMBDA f : f # <<>>)

\* the call is made: nothing has run yet
DeleteNote(p, branch) ==
    /\ Idle(p)
    /\ calls < MaxCalls
    /\ calls' = calls + 1
    /\ pc' = [pc EXCEPT ![p] = "deleteNote"]
    /\ del' = [del EXCEPT ![p] =
                   [arg |-> branch, top |-> TRUE, stack |-> << <<branch>> >>]]
    /\ writes' = [writes EXCEPT ![p] = 0]
    /\ UNCHANGED <<pr, notes, branches, noteRevisions, noteImages, reorderSyncs,
                   clock, cr, up, labels, held, shifts, failures>>

\* one invocation of deleteNote's body, up to its recursive calls
DeleteNoteInvoke(p) ==
    /\ pc[p] = "deleteNote"
    /\ LET branch == Head(Head(del[p].stack))
           rest == Tail(Head(del[p].stack))
           early == DeleteReturnsEarly(branch)
           marked == MarkDeleted(branch)
           saved == SaveBranchEntity(branches, marked)
           cascade == ~early /\ NoBranchLeft(saved, branch.noteId)
           children == IF cascade THEN GetChildBranches(saved, branch.noteId)
                       ELSE <<>>
           pending == PendingFrames(<<children, rest>> \o Tail(del[p].stack))
       IN /\ branches' = IF early THEN branches ELSE saved
          /\ notes' = IF cascade THEN MarkNoteDeleted(notes, branch.noteId)
                      ELSE notes
          /\ writes' = [writes EXCEPT ![p] =
                           IF early THEN @ ELSE IF cascade THEN @ + 2 ELSE @ + 1]
          /\ held' = IF ~del[p].top THEN held
                     ELSE IF early THEN branch ELSE marked
          /\ IF pending = <<>>
             THEN /\ pc' = [pc EXCEPT ![p] = "idle"]
                  /\ del' = [del EXCEPT ![p] = NoDelete]
             ELSE /\ pc' = pc
                  /\ del' = [del EXCEPT ![p].top = FALSE, ![p].stack = pending]
    /\ UNCHANGED <<pr, noteRevisions, noteImages, reorderSyncs, clock, cr, up,
                   labels, shifts, failures, calls>>

-----------------------------------------------------------------------------
(* Stores the tree operations start from: every note has a placement, a    *)
(* note is deleted exactly when none of its placements is live, and live   *)
(* siblings have distinct positions.  A note may have several parents.     *)

InitBranchRows(n) ==
    {r \in [noteId : 1..n, parentNoteId : 0..n, notePosition : 0..MaxInitPos,
            isExpanded : {0}, isDeleted : {0, 1}] : r.noteId # r.parentNoteId}

\* a live placement hangs under the root or under a note that is itself placed
LiveParents(bs) ==
    \A i \in DOMAIN bs :
        (bs[i].isDeleted = 0 /\ bs[i].parentNoteId # ROOT)
        => GetBranches(bs, bs[i].parentNoteId) # {}

UniquePositions(bs) ==
    \A i, j \in DOMAIN bs :
        (/\ i # j
         /\ bs[i].parentNoteId = bs[j].parentNoteId
         /\ bs[i].isDeleted = 0 /\ bs[j].isDeleted = 0)
        => bs[i].notePosition # bs[j].notePosition

InitBranchTables(n, maxBranches) ==
    {bs \in UNION {[1..k -> InitBranchRows(n)] : k \in 0..maxBranches} :
        /\ UniquePositions(bs)
        /\ LiveParents(bs)
        /\ \A id \in 1..n : \E i \in DOMAIN bs : bs[i].noteId = id
        /\ \A i \in DOMAIN bs : \A id \in 1..(bs[i].noteId - 1) :
              \E j \in 1..(i - 1) : bs[j].noteId = id}

InitNoteRow(bs, id) ==
    [NoteRow("old", <<>>, "text", "text/html", FALSE, DateStr(0))
        EXCEPT !.isDeleted = IF GetBranches(bs, id) = {} THEN 1 ELSE 0]

InitStore(maxNotes, maxBranches) ==
    /\ \E n \in 0..maxNotes :
          /\ branches \in InitBranchTables(n, maxBranches)
          /\ notes = [id \in 1..n |-> InitNoteRow(branches, id)]
          /\ labels = [id \in 1..n |-> UNSET]
    /\ noteRevisions = <<>>
    /\ noteImages = <<>>
    /\ reorderSyncs = [parent \in 0..MaxNotes |-> 0]
    /\ shifts = [parent \in 0..MaxNotes |-> 0]
    /\ clock = StartMs
    /\ pc = [p \in Procs |-> "idle"]
    /\ cr = [p \in Procs |-> NoCreate]
    /\ del = [p \in Procs |-> NoDelete]
    /\ up = [p \in Procs |-> NoUpdate]
    /\ pr = [p \in Procs |-> NoProtect]
    /\ held = NullBranch
    /\ writes = [p \in Procs |-> 0]
    /\ failures = 0
    /\ calls = 0

InitTree == InitStore(MaxInitNotes, MaxInitBranches)

InitSmall == InitStore(MaxSmallNotes, MaxSmallBranches)

\* the branch objects a caller can pass: none, a row just loaded, or the
\* object it passed to the previous deleteNote call
BranchArgs ==
    {NullBranch, held} \cup {LoadBranch(branches, id) : id \in DOMAIN branches}

CreateCall(p) ==
    \E parentNoteId \in {ROOT} \cup DOMAIN notes, target \in Targets,
       target_branchId \in 0..Len(branches), opts \in TypeOpts :
        /\ target = "after" \/ target_branchId = 0
        /\ CreateNewNote(p, parentNoteId, target, target_branchId, opts)

DeleteCall(p) == \E branch \in BranchArgs : DeleteNote(p, branch)

CreateSteps(p) ==
    \/ GetNewNotePositionInto(p)
    \/ GetNewNotePositionAfter(p)
    \/ GetNewNotePositionUnknown(p)
    \/ ShiftSiblings(p)
    \/ AddNoteReorderingSync(p)
    \/ InheritFromParent(p)
    \/ SaveNote(p)
    \/ SaveBranch(p)

(* One caller that awaits each call before it makes the next one *)
NextSeq ==
    \/ CreateCall(SeqProc)
    \/ CreateSteps(SeqProc)
    \/ DeleteCall(SeqProc)
    \/ DeleteNoteInvoke(SeqProc)

SpecSeq == InitTree /\ [][NextSeq]_vars

(* Calls that overlap: each call slot runs one call at a time, the slots   *)
(* interleave at every await, and a storage call may reject.               *)
Next ==
    \E p \in Procs :
        \/ CreateCall(p)
        \/ CreateSteps(p)
        \/ DeleteCall(p)
        \/ DeleteNoteInvoke(p)
        \/ StorageError(p)

Spec == InitSmall /\ [][Next]_vars

-----------------------------------------------------------------------------
(* Note content: a sequence of fragments, each either plain markup (0) or  *)
(* an <img src="/api/images/<id>/..."> reference to image <id> (id > 0).    *)

ImageIds == 1..NumImages
Fragments == {0} \cup ImageIds

Contents == UNION {[1..k -> Fragments] : k \in 0..MaxContentLen}

\* the successive matches of re.exec(note.content): match[1] of each
FindImageIds(content) == SelectSeq(content, LAMBDA f : f # 0)

SeqRange(seq) == {seq[i] : i \in DOMAIN seq}

-----------------------------------------------------------------------------
(* updateNote(noteId, noteUpdates)                                          *)

\* repository.getNote(noteId): the Note entity a row is loaded into
LoadNote(ns, noteId) ==
    [noteId |-> noteId, title |-> ns[noteId].title,
     content |-> ns[noteId].content, type |-> ns[noteId].type,
     isProtected |-> ns[noteId].isProtected,
     dateCreated |-> ns[noteId].dateCreated,
     dateModified |-> ns[noteId].dateModified]

\* the call is made: nothing has run yet
UpdateNote(p, noteId, title, content, isProtected) ==
    /\ Idle(p)
    /\ calls < MaxUpdates
    /\ calls' = calls + 1
    /\ pc' = [pc EXCEPT ![p] = "getNote"]
    /\ up' = [up EXCEPT ![p] = [NoUpdate EXCEPT
                  !.noteId = noteId, !.title = title, !.content = content,
                  !.given = content, !.isProtected = isProtected]]
    /\ writes' = [writes EXCEPT ![p] = 0]
    /\ UNCHANGED <<pr, notes, branches, noteRevisions, noteImages, reorderSyncs,
                   clock, cr, del, labels, held, shifts, failures>>

\* mutation: the updates' content is used for every type
UpdatesContentAsGiven(note, content) == content

\* if (note.type === 'file') noteUpdates.content = note.content
UpdatesContent(note, content) ==
    IF note.type = "file" THEN note.content ELSE content

GetNote(p) ==
    /\ pc[p] = "getNote"
    /\ LET note == LoadNote(notes, up[p].noteId)
       IN up' = [up EXCEPT ![p].note = note,
                           ![p].content = UpdatesContent(note, @)]
    /\ pc' = [pc EXCEPT ![p] = "saveNoteRevision"]
    /\ UNCHANGED <<pr, notes, branches, noteRevisions, noteImages, reorderSyncs,
                   clock, cr, del, labels, held, writes, shifts, failures,
                   calls>>

\* utils.dateStr(new Date(now.getTime() - noteRevisionSnapshotTimeInterval * 1000))
RevisionCutoff(now) == DateStr(now - IntervalMs)

\* mutation: the query does not filter on noteId
ExistingRevisionIdsAnyNote(revs, noteId, revisionCutoff) ==
    {i \in DOMAIN revs : StrGeq(revs[i].dateModifiedTo, revisionCutoff)}

\* SELECT noteRevisionId FROM note_revisions WHERE noteId = ? AND dateModifiedTo >= ?
ExistingNoteRevisionIds(revs, noteId, revisionCutoff) ==
    {i \in DOMAIN revs : /\ revs[i].noteId = noteId
                         /\ StrGeq(revs[i].dateModifiedTo, revisionCutoff)}

\* now.getTime() - utils.parseDateTime(note.dateCreated).getTime()
MsSinceDateCreated(note, now) == now - ParseDateTime(note.dateCreated)

\* the condition under which saveNoteRevision writes a revision
ShouldSnapshot(note, label, revs, now) ==
    /\ note.type # "file"
    /\ label # "true"
    /\ ExistingNoteRevisionIds(revs, note.noteId, RevisionCutoff(now)) = {}
    /\ MsSinceDateCreated(note, now) >= IntervalMs

\* saveNoteRevision up to its condition: the label map, now, the option
\* and the existing revision are read
SaveNoteRevisionCheck(p) ==
    /\ pc[p] = "saveNoteRevision"
    /\ LET snapshot == ShouldSnapshot(up[p].note, labels[up[p].noteId],
                                      noteRevisions, clock)
       IN /\ up' = [up EXCEPT ![p].now = clock, ![p].snapshot = snapshot]
          /\ pc' = [pc EXCEPT ![p] =
                       IF snapshot THEN "saveRevision" ELSE "updateEntity"]
    /\ UNCHANGED <<pr, notes, branches, noteRevisions, noteImages, reorderSyncs,
                   clock, cr, del, labels, held, writes, shifts, failures,
                   calls>>

\* mutation: the revision's interval starts at the time it is taken
NewNoteRevisionFromNow(note, nowDate) ==
    [noteId |-> note.noteId, title |-> note.title, content |-> note.content,
     isProtected |-> FALSE, dateModifiedFrom |-> nowDate,
     dateModifiedTo |-> nowDate]

\* new NoteRevision({...}) of the note as loaded
NewNoteRevision(note, nowDate) ==
    [noteId |-> note.noteId, title |-> note.title, content |-> note.content,
     isProtected |-> FALSE, dateModifiedFrom |-> note.dateModified,
     dateModifiedTo |-> nowDate]

SaveRevision(p) ==
    /\ pc[p] = "saveRevision"
    /\ noteRevisions' = Append(noteRevisions,
                               NewNoteRevision(up[p].note, DateStr(clock)))
    /\ writes' = [writes EXCEPT ![p] = @ + 1]
    /\ pc' = [pc EXCEPT ![p] = "updateEntity"]
    /\ UNCHANGED <<pr, notes, branches, noteImages, reorderSyncs, clock, cr, del,
                   up, labels, held, shifts, failures, calls>>

\* note.title = ...; note.content = ...; note.isProtected = ...
UpdatedNote(note, title, content, isProtected) ==
    [note EXCEPT !.title = title, !.content = content,
                 !.isProtected = isProtected]

\* repository.updateEntity(note): the row takes the entity's properties
\* and the time of the write
SaveNoteEntity(ns, note, nowDate) ==
    [ns EXCEPT ![note.noteId] =
        [@ EXCEPT !.title = note.title, !.content = note.content,
                  !.isProtected = note.isProtected,
                  !.dateModified = nowDate]]

UpdateEntity(p) ==
    /\ pc[p] = "updateEntity"
    /\ LET note == UpdatedNote(up[p].note, up[p].title, up[p].content,
                               up[p].isProtected)
       IN /\ up' = [up EXCEPT ![p].note = note]
          /\ notes' = SaveNoteEntity(notes, note, DateStr(clock))
    /\ writes' = [writes EXCEPT ![p] = @ + 1]
    /\ pc' = [pc EXCEPT ![p] = "saveNoteImages"]
    /\ UNCHANGED <<pr, branches, noteRevisions, noteImages, reorderSyncs, clock,
                   cr, del, labels, held, shifts, failures, calls>>

\* note.getNoteImages(): ids of the note's tracking records that are live
GetNoteImages(imgs, noteId) ==
    {i \in DOMAIN imgs : imgs[i].noteId = noteId /\ imgs[i].isDeleted = 0}

NewNoteImage(noteId, imageId) ==
    [noteId |-> noteId, imageId |-> imageId, isDeleted |-> 0]

\* mutation: find never finds a record
HasExistingNever(imgs, existing, imageId) == FALSE

\* existingNoteImages.find(ni => ni.imageId === imageId) finds a record
HasExisting(imgs, existing, imageId) ==
    \E i \in existing : imgs[i].imageId = imageId

\* the while loop: one record per match that existingNoteImages (read once,
\* before the loop) has no record for
RECURSIVE CreateMissing(_, _, _, _)
CreateMissing(imgs, existing, noteId, found) ==
    IF found = <<>> THEN imgs
    ELSE LET next == IF HasExisting(imgs, existing, Head(found)) THEN imgs
                     ELSE Append(imgs, NewNoteImage(noteId, Head(found)))
         IN CreateMissing(next, existing, noteId, Tail(found))

\* mutation: no record is found unused
UnusedNoteImagesNone(imgs, existing, found) == {}

\* existingNoteImages.filter(ni => !foundImageIds.includes(ni.imageId))
UnusedNoteImages(imgs, existing, found) ==
    {i \in existing : imgs[i].imageId \notin SeqRange(found)}

\* the for loop: unusedNoteImage.isDeleted = 1 and updateEntity
MarkUnused(imgs, unused) ==
    [i \in DOMAIN imgs |->
        IF i \in unused THEN [imgs[i] EXCEPT !.isDeleted = 1] ELSE imgs[i]]

\* the records saveNoteImages leaves for a note
SavedNoteImages(imgs, note) ==
    IF note.type # "text" THEN imgs
    ELSE LET existing == GetNoteImages(imgs, note.noteId)
             found == FindImageIds(note.content)
             created == CreateMissing(imgs, existing, note.noteId, found)
         IN MarkUnused(created, UnusedNoteImages(imgs, existing, found))

\* the writes saveNoteImages makes: one per record created or marked
NoteImageWrites(imgs, note) ==
    IF note.type # "text" THEN 0
    ELSE LET existing == GetNoteImages(imgs, note.noteId)
             found == FindImageIds(note.content)
         IN (Len(SavedNoteImages(imgs, note)) - Len(imgs))
            + Cardinality(UnusedNoteImages(imgs, existing, found))

SaveNoteImages(p) ==
    /\ pc[p] = "saveNoteImages"
    /\ noteImages' = SavedNoteImages(noteImages, up[p].note)
    /\ writes' = [writes EXCEPT ![p] = @ + NoteImageWrites(noteImages, up[p].note)]
    /\ pc' = [pc EXCEPT ![p] = "protectNoteRevisions"]
    /\ UNCHANGED <<pr, notes, branches, noteRevisions, reorderSyncs, clock, cr,
                   del, up, labels, held, shifts, failures, calls>>

\* note.getRevisions(): ids of the note's revisions
GetRevisions(revs, noteId) == {i \in DOMAIN revs : revs[i].noteId = noteId}

\* mutation: no revision is found to differ
UnsyncedRevisionsNone(revs, note) == {}

\* the revisions protectNoteRevisions writes
UnsyncedRevisions(revs, note) ==
    {i \in GetRevisions(revs, note.noteId) :
        revs[i].isProtected # note.isProtected}

ProtectedRevisions(revs, note) ==
    [i \in DOMAIN revs |->
        IF i \in UnsyncedRevisions(revs, note)
        THEN [revs[i] EXCEPT !.isProtected = note.isProtected]
        ELSE revs[i]]

ProtectNoteRevisions(p) ==
    /\ pc[p] = "protectNoteRevisions"
    /\ noteRevisions' = ProtectedRevisions(noteRevisions, up[p].note)
    /\ writes' = [writes EXCEPT ![p] =
                     @ + Cardinality(UnsyncedRevisions(noteRevisions, up[p].note))]
    /\ up' = [up EXCEPT ![p] = NoUpdate]
    /\ pc' = [pc EXCEPT ![p] = "idle"]
    /\ UNCHANGED <<pr, notes, branches, noteImages, reorderSyncs, clock, cr, del,
                   labels, held, shifts, failures, calls>>

\* time passes
Tick ==
    /\ clock + TickMs <= MaxClockMs
    /\ clock' = clock + TickMs
    /\ UNCHANGED <<pr, notes, branches, noteRevisions, noteImages, reorderSyncs,
                   pc, cr, del, up, labels, held, writes, shifts, failures,
                   calls>>

-----------------------------------------------------------------------------
(* Stores the update operations start from: the note that is updated, of   *)
(* either type, with or without the disable_versioning label, old or just  *)
(* created, and a second note with a tracked image; at most one revision,  *)
(* of either note, old or fresh.                                            *)

InitContent(type) == IF type = "text" THEN <<1>> ELSE <<0>>

InitMime(type) == IF type = "text" THEN "text/html" ELSE "application/octet-stream"

InitRevision(noteId, ms) ==
    [noteId |-> noteId, title |-> "older", content |-> <<>>,
     isProtected |-> FALSE, dateModifiedFrom |-> DateStr(0),
     dateModifiedTo |-> DateStr(ms)]

InitRevisionTables(created) ==
    {<<>>} \cup {<<InitRevision(noteId, ms)>> :
                    noteId \in {1, 2}, ms \in {created, StartMs}}

InitUpdateStore(types, labelValues, createdTimes) ==
    /\ \E type \in types, created \in createdTimes :
          /\ notes = <<NoteRow("old", InitContent(type), type, InitMime(type),
                               FALSE, DateStr(created)),
                       NoteRow("other", <<2>>, "text", "text/html", FALSE,
                               DateStr(0))>>
          /\ noteImages = IF type = "text"
                          THEN <<NewNoteImage(1, 1), NewNoteImage(2, 2)>>
                          ELSE <<NewNoteImage(2, 2)>>
          /\ noteRevisions \in InitRevisionTables(created)
    /\ \E label \in labelValues : labels = <<label, UNSET>>
    /\ branches = <<BranchRow(NewBranch(1, 1, ROOT, 0)),
                    BranchRow(NewBranch(2, 2, ROOT, 1))>>
    /\ reorderSyncs = [parent \in 0..MaxNotes |-> 0]
    /\ shifts = [parent \in 0..MaxNotes |-> 0]
    /\ clock = StartMs
    /\ pc = [p \in Procs |-> "idle"]
    /\ cr = [p \in Procs |-> NoCreate]
    /\ del = [p \in Procs |-> NoDelete]
    /\ up = [p \in Procs |-> NoUpdate]
    /\ pr = [p \in Procs |-> NoProtect]
    /\ held = NullBranch
    /\ writes = [p \in Procs |-> 0]
    /\ failures = 0
    /\ calls = 0

InitUpdate == InitUpdateStore({"text", "file"}, {UNSET, "true", "false"},
                              {0, StartMs})

Titles == {"a", "b"}

\* the contents the revision policy is exercised with
PlainContents == {<<>>, <<1>>}

\* the note the calls update
UpdatedNoteId == CHOOSE noteId \in {1, 2} : \A other \in {1, 2} : noteId <= other

UpdateCall(p, titles, contents) ==
    \E title \in titles, content \in contents, isProtected \in BOOLEAN :
        UpdateNote(p, UpdatedNoteId, title, content, isProtected)

UpdateSteps(p) ==
    \/ GetNote(p)
    \/ SaveNoteRevisionCheck(p)
    \/ SaveRevision(p)
    \/ UpdateEntity(p)
    \/ SaveNoteImages(p)
    \/ ProtectNoteRevisions(p)

(* One caller that awaits each updateNote call, while time passes *)
NextUpdate ==
    \/ UpdateCall(SeqProc, Titles, PlainContents)
    \/ UpdateSteps(SeqProc)
    \/ Tick

SpecUpdate == InitUpdate /\ [][NextUpdate]_vars

(* One caller that awaits each updateNote call; the contents range over  *)
(* every sequence of fragments                                             *)
InitImages == InitUpdateStore({"text", "file"}, {UNSET}, {0})

NextImages ==
    \/ UpdateCall(SeqProc, {"a"}, Contents)
    \/ UpdateSteps(SeqProc)

SpecImages == InitImages /\ [][NextImages]_vars

-----------------------------------------------------------------------------
(* protectNoteRecursively(note, protect)                                    *)

MaxProtects == 1
MaxProtectNotes == 3
MaxProtectBranches == 3

RECURSIVE Pow2(_)
Pow2(k) == IF k = 0 THEN 1 ELSE 2 * Pow2(k - 1)

\* the invocations the recursion is followed for: on a graph without a
\* cycle every invocation follows its own chain of distinct placements, so
\* there are fewer than this many
MaxVisits == Pow2(MaxProtectBranches)

\* mutation: deleted placements are followed too
GetChildNotesWithDeleted(ns, bs, noteId) ==
    LET ids == SetToSeq({i \in DOMAIN bs : bs[i].parentNoteId = noteId})
    IN [k \in DOMAIN ids |-> LoadNote(ns, bs[ids[k]].noteId)]

\* note.getChildNotes(): one Note entity per non-deleted placement under
\* the note, all loaded when the call is made
GetChildNotes(ns, bs, noteId) ==
    LET ids == SetToSeq(ChildBranchIds(bs, noteId))
    IN [k \in DOMAIN ids |-> LoadNote(ns, bs[ids[k]].noteId)]

\* mutation: the note is never found to differ
ProtectNoteWritesNever(note, protect) == FALSE

\* protect !== note.isProtected
ProtectNoteWrites(note, protect) == protect # note.isProtected

\* note.isProtected = protect
ProtectedNote(note, protect) == [note EXCEPT !.isProtected = protect]

\* the call is made: nothing has run yet
ProtectNoteRecursively(p, noteId, protect) ==
    /\ Idle(p)
    /\ calls < MaxProtects
    /\ calls' = calls + 1
    /\ pc' = [pc EXCEPT ![p] = "protectNoteRecursively"]
    /\ pr' = [pr EXCEPT ![p] = [noteId |-> noteId, protect |-> protect,
                                stack |-> << <<LoadNote(notes, noteId)>> >>,
                                visits |-> 0]]
    /\ writes' = [writes EXCEPT ![p] = 0]
    /\ UNCHANGED <<notes, branches, noteRevisions, noteImages, reorderSyncs,
                   clock, cr, del, up, labels, held, shifts, failures>>

\* one invocation of protectNoteRecursively's body, up to its recursive
\* calls: protectNote, protectNoteRevisions and getChildNotes
ProtectNoteInvoke(p) ==
    /\ pc[p] = "protectNoteRecursively"
    /\ pr[p].visits < MaxVisits
    /\ LET note == Head(Head(pr[p].stack))
           rest == Tail(Head(pr[p].stack))
           changed == ProtectNoteWrites(note, pr[p].protect)
           protected == IF changed THEN ProtectedNote(note, pr[p].protect)
                        ELSE note
           children == GetChildNotes(notes, branches, note.noteId)
           pending == PendingFrames(<<children, rest>> \o Tail(pr[p].stack))
       IN /\ notes' = IF changed
                      THEN SaveNoteEntity(notes, protected, DateStr(clock))
                      ELSE notes
          /\ noteRevisions' = ProtectedRevisions(noteRevisions, protected)
          /\ writes' = [writes EXCEPT ![p] =
                           @ + (IF changed THEN 1 ELSE 0)
                             + Cardinality(UnsyncedRevisions(noteRevisions,
                                                             protected))]
          /\ pr' = [pr EXCEPT ![p].stack = pending, ![p].visits = @ + 1]
          /\ pc' = [pc EXCEPT ![p] = IF pending = <<>> THEN "idle" ELSE @]
    /\ UNCHANGED <<branches, noteImages, reorderSyncs, clock, cr, del, up,
                   labels, held, shifts, failures, calls>>

-----------------------------------------------------------------------------
(* Stores the protection calls start from: up to three notes placed under  *)
(* the root and under each other, several placements per note and cycles   *)
(* included, each note protected or not, each with an unprotected and a    *)
(* protected revision.                                                      *)

Placements(n) ==
    {r \in [noteId : 1..n, parentNoteId : 0..n, isDeleted : {0, 1}] :
        r.noteId # r.parentNoteId}

\* the k-th placement as a row: siblings take their positions in row order
PlacementRow(pl, k) ==
    [noteId |-> pl[k].noteId, parentNoteId |-> pl[k].parentNoteId,
     notePosition |-> k - 1, isExpanded |-> 0, isDeleted |-> pl[k].isDeleted]

ProtectBranchTables(n, maxBranches) ==
    {[k \in DOMAIN pl |-> PlacementRow(pl, k)] :
        pl \in {t \in UNION {[1..k -> Placements(n)] : k \in 1..maxBranches} :
                  /\ LiveParents(t)
                  /\ \A id \in 1..n : \E i \in DOMAIN t : t[i].noteId = id
                  /\ \A i \in DOMAIN t : \A id \in 1..(t[i].noteId - 1) :
                        \E j \in 1..(i - 1) : t[j].noteId = id}}

ProtectRevisions(n) ==
    [k \in 1..(2 * n) |->
        [InitRevision((k + 1) \div 2, 0) EXCEPT !.isProtected = (k % 2 = 0)]]

InitProtect ==
    /\ \E n \in 1..MaxProtectNotes :
          /\ branches \in ProtectBranchTables(n, MaxProtectBranches)
          /\ \E flags \in [1..n -> BOOLEAN] :
                notes = [id \in 1..n |->
                            [InitNoteRow(branches, id)
                                EXCEPT !.isProtected = flags[id]]]
          /\ labels = [id \in 1..n |-> UNSET]
          /\ noteRevisions = ProtectRevisions(n)
    /\ noteImages = <<>>
    /\ reorderSyncs = [parent \in 0..MaxNotes |-> 0]
    /\ shifts = [parent \in 0..MaxNotes |-> 0]
    /\ clock = StartMs
    /\ pc = [p \in Procs |-> "idle"]
    /\ cr = [p \in Procs |-> NoCreate]
    /\ del = [p \in Procs |-> NoDelete]
    /\ up = [p \in Procs |-> NoUpdate]
    /\ pr = [p \in Procs |-> NoProtect]
    /\ held = NullBranch
    /\ writes = [p \in Procs |-> 0]
    /\ failures = 0
    /\ calls = 0

ProtectCall(p) ==
    \E noteId \in DOMAIN notes, protect \in BOOLEAN :
        ProtectNoteRecursively(p, noteId, protect)

(* One caller of protectNoteRecursively; a call that can take a step      *)
(* eventually takes it                                                      *)
NextProtect ==
    \/ ProtectCall(SeqProc)
    \/ ProtectNoteInvoke(SeqProc)

SpecProtect == InitProtect /\ [][NextProtect]_vars /\ WF_vars(NextProtect)

-----------------------------------------------------------------------------
(* One caller of deleteNote that awaits each call; a call that can take a  *)
(* step eventually takes it                                                 *)

NextDelete ==
    \/ DeleteCall(SeqProc)
    \/ DeleteNoteInvoke(SeqProc)

SpecDelete == InitTree /\ [][NextDelete]_vars /\ WF_vars(NextDelete)

-----------------------------------------------------------------------------
(* Two callers of updateNote on the same note: the calls interleave at     *)
(* every await, while time passes                                           *)

InitRace == InitUpdateStore({"text"}, {UNSET}, {0})

NextRace ==
    \/ \E p \in Procs :
          \/ UpdateCall(p, {"a"}, {<<>>})
          \/ UpdateSteps(p)
    \/ Tick

SpecRace == InitRace /\ [][NextRace]_vars

-----------------------------------------------------------------------------
(* Properties of the position allocator and of creation                     *)

\* the live rows placed under a parent
LiveUnder(bs, parent) ==
    {i \in DOMAIN bs : bs[i].parentNoteId = parent /\ bs[i].isDeleted = 0}

\* C1: with one caller that awaits each createNewNote (into, or after any
\* existing reference branch) and deleteNote call, no two non-deleted
\* branches of one parent ever share a notePosition.
C1_SiblingPositionsUnique ==
    \A i, j \in DOMAIN branches :
        (/\ i # j
         /\ branches[i].isDeleted = 0
         /\ branches[j].isDeleted = 0
         /\ branches[i].parentNoteId = branches[j].parentNoteId)
        => branches[i].notePosition # branches[j].notePosition

\* an 'after' insertion that moved a sibling has completed, and a deleteNote
\* call after it has marked a branch
C1_Witness ==
    /\ Idle(SeqProc)
    /\ calls = 2
    /\ \E parent \in DOMAIN shifts : shifts[parent] > 0
    /\ held.isDeleted = JsTrue

\* C2: a note is in the store if and only if a branch of it is: no state
\* shows a note that createNewNote has saved without its branch.
C2_NoteIffBranch ==
    \A noteId \in DOMAIN notes :
        \E i \in DOMAIN branches : branches[i].noteId = noteId

\* C3: every UPDATE that shifted siblings of a parent has its reordering
\* entry for that parent recorded in the same state.
C3_ShiftWithNotification ==
    \A parent \in DOMAIN shifts : shifts[parent] <= reorderSyncs[parent]

\* C4: once the calls made have completed, a note is marked deleted exactly
\* when none of its branches is non-deleted.
C4_DeletedIffNoLiveBranch ==
    Idle(SeqProc) =>
        \A noteId \in DOMAIN notes :
            (notes[noteId].isDeleted = 1) <=>
                ~(\E i \in DOMAIN branches :
                     branches[i].noteId = noteId /\ branches[i].isDeleted = 0)

\* deleteNote has removed one placement of a note that has another one
C4_Witness ==
    /\ Idle(SeqProc)
    /\ held.isDeleted = JsTrue
    /\ notes[held.noteId].isDeleted = 0
    /\ \E i \in DOMAIN branches :
          /\ branches[i].noteId = held.noteId
          /\ branches[i].isDeleted = 0
          /\ branches[i].parentNoteId # held.parentNoteId

\* C5: the 'after' target returns p + 1 for the reference branch's position
\* p, adds exactly 1 to the position of every non-deleted branch of the
\* parent that lies after p, and changes no other row.
C5_AfterShiftsLaterSiblings ==
    [][(pc[SeqProc] = "shift" /\ pc'[SeqProc] # "shift") =>
          LET parent == cr[SeqProc].parentNoteId
              p == branches[cr[SeqProc].target_branchId].notePosition
          IN /\ cr'[SeqProc].newNotePos = p + 1
             /\ DOMAIN branches' = DOMAIN branches
             /\ \A i \in DOMAIN branches :
                   IF /\ branches[i].parentNoteId = parent
                      /\ branches[i].isDeleted = 0
                      /\ branches[i].notePosition > p
                   THEN branches'[i] =
                          [branches[i] EXCEPT !.notePosition = @ + 1]
                   ELSE branches'[i] = branches[i]]_vars

\* the UPDATE has run: a sibling was moved past p + 1, the reference branch
\* stayed at p and a deleted branch of the parent kept a position after p
C5_Witness ==
    /\ pc[SeqProc] = "addNoteReorderingSync"
    /\ LET parent == cr[SeqProc].parentNoteId
           p == cr[SeqProc].afterPos
       IN /\ \E i \in LiveUnder(branches, parent) :
                branches[i].notePosition = p + 2
          /\ cr[SeqProc].target_branchId \in LiveUnder(branches, parent)
          /\ \E i \in DOMAIN branches :
                /\ branches[i].parentNoteId = parent
                /\ branches[i].isDeleted = 1
                /\ branches[i].notePosition = p + 1

\* C6: the 'into' target gives the new branch 1 + the largest position of
\* the parent's non-deleted branches (so more than each of them), 0 when
\* there is none, and no step of the call changes an existing branch.
C6_IntoAppendsLast ==
    [][(cr[SeqProc].target = "into" /\ pc'[SeqProc] # pc[SeqProc]) =>
          /\ \A i \in DOMAIN branches : branches'[i] = branches[i]
          /\ pc[SeqProc] = "saveBranch" =>
                LET new == branches'[Len(branches) + 1]
                    live == LiveUnder(branches, cr[SeqProc].parentNoteId)
                IN /\ Len(branches') = Len(branches) + 1
                   /\ new.parentNoteId = cr[SeqProc].parentNoteId
                   /\ \A i \in live :
                         new.notePosition > branches[i].notePosition
                   /\ live = {} => new.notePosition = 0
                   /\ live # {} => \E i \in live :
                         new.notePosition = branches[i].notePosition + 1]_vars

\* an 'into' position was computed past a live sibling while a deleted
\* branch of the parent holds a position that is at least as large
C6_Witness ==
    /\ pc[SeqProc] = "saveNote"
    /\ cr[SeqProc].target = "into"
    /\ cr[SeqProc].newNotePos = 1
    /\ \E i \in DOMAIN branches :
          /\ branches[i].parentNoteId = cr[SeqProc].parentNoteId
          /\ branches[i].isDeleted = 1
          /\ branches[i].notePosition >= 1

\* C7: a deleteNote call whose branch is missing or already deleted in the
\* store performs no write and leaves notes and branches as they were.
C7_DeleteOfDeletedWritesNothing ==
    [][\A p \in Procs :
          (/\ pc[p] = "deleteNote"
           /\ del[p].top
           /\ \/ IsNull(del[p].arg)
              \/ branches[del[p].arg.branchId].isDeleted = 1
           /\ del'[p] # del[p])
          => /\ writes'[p] = 0
             /\ branches' = branches
             /\ notes' = notes]_vars

-----------------------------------------------------------------------------
(* Properties of updateNote                                                 *)

\* the skip conditions, at the time saveNoteRevision reads the clock
C8_Skip(noteId) ==
    \/ notes[noteId].type = "file"
    \/ labels[noteId] = "true"
    \/ \E i \in DOMAIN noteRevisions :
          /\ noteRevisions[i].noteId = noteId
          /\ ParseDateTime(noteRevisions[i].dateModifiedTo) >= clock - IntervalMs
    \/ clock - ParseDateTime(notes[noteId].dateCreated) < IntervalMs

\* C8: updateNote goes on to write a revision exactly when no skip
\* condition holds; it then writes one revision, of the updated note, and
\* no other step of the call adds or removes a revision.
C8_RevisionIffNoSkip ==
    [][pc'[SeqProc] # pc[SeqProc] =>
          /\ pc[SeqProc] = "saveNoteRevision" =>
                /\ (pc'[SeqProc] = "saveRevision") <=> ~C8_Skip(up[SeqProc].noteId)
                /\ pc'[SeqProc] \in {"saveRevision", "updateEntity"}
          /\ pc[SeqProc] = "saveRevision" =>
                /\ Len(noteRevisions') = Len(noteRevisions) + 1
                /\ noteRevisions'[Len(noteRevisions')].noteId = up[SeqProc].noteId
                /\ pc'[SeqProc] = "updateEntity"
          /\ pc[SeqProc] # "saveRevision" =>
                Len(noteRevisions') = Len(noteRevisions)]_vars

\* a revision has just been written although the note has an older one,
\* which has expired
C8_Witness ==
    /\ pc[SeqProc] = "updateEntity"
    /\ up[SeqProc].snapshot
    /\ \E i, j \in DOMAIN noteRevisions :
          /\ i < j
          /\ noteRevisions[i].noteId = up[SeqProc].noteId
          /\ noteRevisions[j].noteId = up[SeqProc].noteId

\* C9: no step changes the content of a note of type 'file', whatever
\* content the updates carry, while the title and the protection flag that
\* updateNote persists are the ones of the updates.
C9_FileContentKept ==
    [][\A noteId \in DOMAIN notes :
          notes[noteId].type = "file" =>
             /\ notes'[noteId].content = notes[noteId].content
             /\ (pc[SeqProc] = "updateEntity" /\ pc'[SeqProc] # pc[SeqProc]
                 /\ up[SeqProc].noteId = noteId) =>
                   /\ notes'[noteId].title = up[SeqProc].title
                   /\ notes'[noteId].isProtected = up[SeqProc].isProtected]_vars

\* a file note was persisted with a new title and protection flag by a
\* call whose updates carried another content than the note's
C9_Witness ==
    /\ pc[SeqProc] = "saveNoteImages"
    /\ notes[up[SeqProc].noteId].type = "file"
    /\ up[SeqProc].given # notes[up[SeqProc].noteId].content
    /\ up[SeqProc].given # <<>>
    /\ notes[up[SeqProc].noteId].title = "b"
    /\ notes[up[SeqProc].noteId].isProtected

\* the image identifiers a content references
C10_Referenced(content) == {content[k] : k \in DOMAIN content} \ {0}

\* the image identifiers of a note's non-deleted tracking records
C10_Tracked(noteId) ==
    {noteImages[i].imageId :
        i \in {k \in DOMAIN noteImages : /\ noteImages[k].noteId = noteId
                                         /\ noteImages[k].isDeleted = 0}}

-----------------------------------------------------------------------------
(* Properties of the image reference tracker's writes                       *)

\* the live records of a note whose image the content still references
C11_Retained(imgs, note) ==
    {i \in GetNoteImages(imgs, note.noteId) :
        imgs[i].imageId \in C10_Referenced(note.content)}

\* the live records of a note whose image the content no longer references
C11_Removed(imgs, note) ==
    GetNoteImages(imgs, note.noteId) \ C11_Retained(imgs, note)

-----------------------------------------------------------------------------
(* Properties of the protection propagator                                  *)

\* the notes reachable from a set of notes through non-deleted placements
RECURSIVE C12_ReachableFrom(_, _)
C12_ReachableFrom(bs, S) ==
    LET next == S \cup {bs[i].noteId : i \in {k \in DOMAIN bs :
                           bs[k].parentNoteId \in S /\ bs[k].isDeleted = 0}}
    IN IF next = S THEN S ELSE C12_ReachableFrom(bs, next)

C12_Reachable(bs, noteId) == C12_ReachableFrom(bs, {noteId})

\* C12: no step of protectNoteRecursively(note, protect) writes a note that
\* is not reachable from the start note through non-deleted placements, or
\* a revision of such a note; and when the call completes, the start note,
\* every note reachable from it and every revision of each of them has
\* isProtected equal to protect.
C12_ReachableProtected ==
    [][\A p \in Procs :
          (pc[p] = "protectNoteRecursively" /\ pr'[p] # pr[p])
          => LET reach == C12_Reachable(branches, pr[p].noteId)
             IN /\ \A n \in DOMAIN notes \ reach :
                      /\ notes'[n] = notes[n]
                      /\ \A i \in GetRevisions(noteRevisions, n) :
                            noteRevisions'[i] = noteRevisions[i]
                /\ pc'[p] = "idle"
                      => \A n \in reach :
                            /\ notes'[n].isProtected = pr[p].protect
                            /\ \A i \in GetRevisions(noteRevisions', n) :
                                  noteRevisions'[i].isProtected = pr[p].protect]_vars

\* a completed call with protect = true on a note placed under another one
\* and with a child: the note and its child were unprotected and are
\* protected, with their revisions (4 writes); the parent is left unprotected
C12_Witness ==
    /\ Idle(SeqProc)
    /\ pr[SeqProc].noteId = 2 /\ pr[SeqProc].protect /\ pr[SeqProc].visits = 2
    /\ Len(notes) = 3
    /\ C12_Reachable(branches, 2) = {2, 3}
    /\ GetBranches(branches, 1) # {}
    /\ ~notes[1].isProtected /\ notes[2].isProtected /\ notes[3].isProtected
    /\ \A i \in GetRevisions(noteRevisions, 2) \cup GetRevisions(noteRevisions, 3) :
          noteRevisions[i].isProtected
    /\ writes[SeqProc] = 4

-----------------------------------------------------------------------------
(* Properties of overlapping calls                                          *)

\* C13: createNewNote calls are not serialized: when two calls with target
\* 'into' for the same parent have both read the same maximum and one of
\* them saves its branch, the branch is persisted at the position read, and
\* the other call keeps the position it read, which is now taken; it goes
\* on to persist a second live sibling at the same position.
C13_IntoCallsRace ==
    [][\A p, q \in Procs :
          (/\ p # q
           /\ pc[p] = "saveBranch" /\ pc'[p] = "idle"
           /\ Len(branches') = Len(branches) + 1
           /\ cr[p].target = "into" /\ cr[q].target = "into"
           /\ cr[p].parentNoteId = cr[q].parentNoteId
           /\ pc[q] \in {"getParent", "saveNote", "saveBranch"}
           /\ cr[q].newNotePos = cr[p].newNotePos)
          => /\ branches'[Len(branches')]
                   = [noteId |-> cr[p].noteId,
                      parentNoteId |-> cr[q].parentNoteId,
                      notePosition |-> cr[q].newNotePos,
                      isExpanded |-> 0, isDeleted |-> 0]
             /\ cr'[q] = cr[q] /\ pc'[q] = pc[q]]_vars

\* two overlapping 'into' calls have completed (no 'after' call was made, no
\* storage call failed): the two branches they created are live siblings
\* with the same position
C13_Witness ==
    /\ \A p \in Procs : Idle(p)
    /\ calls = 2 /\ failures = 0
    /\ \A parent \in DOMAIN reorderSyncs : reorderSyncs[parent] = 0
    /\ Len(branches) >= 2
    /\ LET i == Len(branches) - 1
           j == Len(branches)
       IN /\ branches[i].noteId = Len(notes) - 1
          /\ branches[j].noteId = Len(notes)
          /\ branches[i].parentNoteId = branches[j].parentNoteId
          /\ branches[i].notePosition = branches[j].notePosition
          /\ branches[i].isDeleted = 0 /\ branches[j].isDeleted = 0

-----------------------------------------------------------------------------
(* Properties of the revision snapshot policy under overlapping calls       *)

\* the time between the moments two revisions were taken
C14_Apart(r, s) ==
    LET a == ParseDateTime(r.dateModifiedTo)
        b == ParseDateTime(s.dateModifiedTo)
    IN IF a >= b THEN a - b ELSE b - a

\* C14: no two revisions of a note were taken less than one snapshot
\* interval apart, in every state of updateNote calls on the note, the calls
\* of two callers interleaved at their awaits.
C14_OneFreshRevision ==
    \A i, j \in DOMAIN noteRevisions :
        (i # j /\ noteRevisions[i].noteId = noteRevisions[j].noteId)
        => C14_Apart(noteRevisions[i], noteRevisions[j]) >= IntervalMs

-----------------------------------------------------------------------------
(* Properties of the revisions updateNote writes                            *)

\* C15: the revision updateNote writes is the note before the update: the
\* step that writes it appends one revision whose title, content and
\* dateModifiedFrom are the title, content and dateModified of the note as
\* loaded, which is still the stored row, and leaves the note's row alone;
\* the note is persisted by the step after it.  No step changes the title
\* or content of a revision.
C15_RevisionOfPreUpdateState ==
    [][/\ \A p \in Procs :
             (pc[p] = "saveRevision" /\ pc'[p] # pc[p])
             => /\ Len(noteRevisions') = Len(noteRevisions) + 1
                /\ LET revision == noteRevisions'[Len(noteRevisions')]
                       stored == notes[up[p].noteId]
                   IN /\ revision.noteId = up[p].noteId
                      /\ revision.title = up[p].note.title
                      /\ revision.content = up[p].note.content
                      /\ revision.dateModifiedFrom = up[p].note.dateModified
                      /\ revision.title = stored.title
                      /\ revision.content = stored.content
                      /\ revision.dateModifiedFrom = stored.dateModified
                /\ notes' = notes
                /\ pc'[p] = "updateEntity"
       /\ \A i \in DOMAIN noteRevisions :
             /\ noteRevisions'[i].title = noteRevisions[i].title
             /\ noteRevisions'[i].content = noteRevisions[i].content]_vars

\* the second update of a note has just written a revision: it holds the
\* title and content the first update gave the note, not the ones this
\* update is about to apply
C15_Witness ==
    /\ pc[SeqProc] = "updateEntity" /\ up[SeqProc].snapshot
    /\ calls = 2
    /\ LET revision == noteRevisions[Len(noteRevisions)]
       IN /\ revision.noteId = up[SeqProc].noteId
          /\ revision.title = "a" /\ up[SeqProc].title = "b"
          /\ revision.content = <<1>> /\ up[SeqProc].content = <<>>
          /\ notes[up[SeqProc].noteId].title = "a"
          /\ ParseDateTime(revision.dateModifiedFrom) < clock

-----------------------------------------------------------------------------
(* Properties of the tracking records created                               *)

\* C17: after the updateNote calls made have completed, a note has at most
\* one non-deleted tracking record per image, also when the content of an
\* update references an image more than once.
C17_OneRecordPerImage ==
    Idle(SeqProc) =>
        \A i, j \in DOMAIN noteImages :
            (/\ noteImages[i].noteId = noteImages[j].noteId
             /\ noteImages[i].imageId = noteImages[j].imageId
             /\ noteImages[i].isDeleted = 0 /\ noteImages[j].isDeleted = 0)
            => i = j

-----------------------------------------------------------------------------
(* Termination of the protection propagator                                 *)

\* the notes placed (not deleted) directly under a note
C18_Children(bs, noteId) ==
    {bs[i].noteId : i \in {k \in DOMAIN bs : /\ bs[k].parentNoteId = noteId
                                            /\ bs[k].isDeleted = 0}}

\* a cycle of non-deleted placements can be reached from the note
C18_Cyclic(bs, noteId) ==
    \E n \in C12_Reachable(bs, noteId) :
        n \in C12_ReachableFrom(bs, C18_Children(bs, n))

\* the chains of non-deleted placements that start at the note, the empty
\* chain included (defined when no cycle can be reached)
RECURSIVE C18_Paths(_, _), C18_PathsVia(_, _)
C18_Paths(bs, noteId) ==
    1 + C18_PathsVia(bs, {i \in DOMAIN bs : /\ bs[i].parentNoteId = noteId
                                            /\ bs[i].isDeleted = 0})

C18_PathsVia(bs, ids) ==
    IF ids = {} THEN 0
    ELSE LET i == CHOOSE k \in ids : TRUE
         IN C18_Paths(bs, bs[i].noteId) + C18_PathsVia(bs, ids \ {i})

C18_Running == pc[SeqProc] = "protectNoteRecursively"

\* C18: a call of protectNoteRecursively from which no cycle of non-deleted
\* placements can be reached completes, and has then invoked protectNote
\* once per chain of placements that starts at the note (a note reached
\* along several chains is visited once per chain); a call from which a
\* cycle can be reached never completes: it is still running after any
\* number of invocations, followed here up to MaxVisits, more than any
\* graph of this size without a cycle takes.
C18_TerminatesIffAcyclic ==
    /\ []((C18_Running /\ ~C18_Cyclic(branches, pr[SeqProc].noteId))
             => <>Idle(SeqProc))
    /\ [][(C18_Running /\ pc'[SeqProc] = "idle")
             => /\ ~C18_Cyclic(branches, pr[SeqProc].noteId)
                /\ pr'[SeqProc].visits = C18_Paths(branches, pr[SeqProc].noteId)
                /\ pr'[SeqProc].visits < MaxVisits]_vars
    /\ []((C18_Running /\ C18_Cyclic(branches, pr[SeqProc].noteId))
             => ([]C18_Running /\ <>(pr[SeqProc].visits = MaxVisits)))

\* a completed call on a note whose only child is placed under it twice:
\* two notes are reachable and protectNote was invoked three times
C18_Witness ==
    /\ Idle(SeqProc) /\ calls = 1
    /\ pr[SeqProc].visits = 3
    /\ Cardinality(C12_Reachable(branches, pr[SeqProc].noteId)) = 2
    /\ ~C18_Cyclic(branches, pr[SeqProc].noteId)

\* a call on a note that is placed under its own child: still running after
\* MaxVisits invocations
C18_CycleReached ==
    /\ C18_Running
    /\ C18_Cyclic(branches, pr[SeqProc].noteId)
    /\ pr[SeqProc].visits = MaxVisits

-----------------------------------------------------------------------------
(* Termination of the deletion cascade                                      *)

C19_Running(p) == pc[p] = "deleteNote"

\* the branch objects of the invocations still to be made
C19_Pending(p) ==
    LET RECURSIVE Flatten(_)
        Flatten(frames) == IF frames = <<>> THEN <<>>
                           ELSE Head(frames) \o Flatten(Tail(frames))
    IN Flatten(del[p].stack)

\* every call of deleteNote completes
C19_Terminates == [](C19_Running(SeqProc) => <>Idle(SeqProc))

\* an invocation that does not return at once marks a row that was not
\* deleted
C19_MarksOneMore ==
    [][\A p \in Procs :
          (/\ C19_Running(p) /\ del'[p] # del[p]
           /\ ~DeleteReturnsEarly(Head(Head(del[p].stack))))
          => LET branchId == Head(Head(del[p].stack)).branchId
             IN /\ branches[branchId].isDeleted = 0
                /\ branches'[branchId].isDeleted = 1]_vars

\* the recursive invocations still to be made are for distinct rows that
\* are not deleted
C19_PendingAreLive ==
    \A p \in Procs :
        (C19_Running(p) /\ ~del[p].top)
        => LET pending == C19_Pending(p)
           IN /\ \A k \in DOMAIN pending :
                    /\ pending[k].branchId \in DOMAIN branches
                    /\ branches[pending[k].branchId].isDeleted = 0
              /\ \A k, m \in DOMAIN pending :
                    pending[k].branchId = pending[m].branchId => k = m

\* the recursive invocations, which are made on rows just loaded
C19_RecursiveMarkOneMore ==
    [][\A p \in Procs :
          (C19_Running(p) /\ del'[p] # del[p] /\ ~del[p].top)
          => LET branchId == Head(Head(del[p].stack)).branchId
             IN /\ ~DeleteReturnsEarly(Head(Head(del[p].stack)))
                /\ branches[branchId].isDeleted = 0
                /\ branches'[branchId].isDeleted = 1]_vars

\* C19: every call of deleteNote completes, on graphs with a cycle of
\* placements too, because each invocation that does not return at once
\* marks one more non-deleted branch as deleted and the invocations still
\* to be made are for distinct non-deleted branches.
C19_TerminatesMarkingBranches ==
    /\ C19_Terminates
    /\ C19_MarksOneMore
    /\ []C19_PendingAreLive

-----------------------------------------------------------------------------
(* Completeness of the deletion cascade                                     *)

\* C20: once the deleteNote calls made have completed, no non-deleted
\* branch has a deleted note as its parent: every placement under a note
\* that became deleted has been deleted, also when the notes placed there
\* have other parents.
C20_CascadeComplete ==
    Idle(SeqProc) =>
        \A i \in DOMAIN branches :
            (branches[i].isDeleted = 0 /\ branches[i].parentNoteId # ROOT)
            => notes[branches[i].parentNoteId].isDeleted = 0

\* one call has deleted a note's last placement: the note is deleted, the
\* placement of its child under it is deleted, and the child, which has
\* another placement, is not (3 writes)
C20_Witness ==
    /\ Idle(SeqProc) /\ calls = 1 /\ writes[SeqProc] = 3
    /\ \E i, j \in DOMAIN branches :
          /\ branches[i].parentNoteId # ROOT
          /\ notes[branches[i].parentNoteId].isDeleted = 1
          /\ branches[i].isDeleted = 1
          /\ branches[j].noteId = branches[i].noteId
          /\ branches[j].isDeleted = 0
          /\ notes[branches[i].noteId].isDeleted = 0

====
